---- MODULE Spec2Model ----
(***************************************************************************)
(* A model of PyLaTeX's command/parameter serialisation                    *)
(* (pylatex/base_classes/command.py) and of its math composites            *)
(* (pylatex/math.py).                                                      *)
(*                                                                         *)
(* Python values are tagged records: t is the Python type.  Strings are    *)
(* TLA+ strings, so that a rendering is compared character by character.   *)
(* A behaviour of Spec is one call: Init draws the call and its inputs,    *)
(* the constructor action builds the object (or raises), and a second      *)
(* action renders or compares it.  SpecOwnership is a caller's script      *)
(* over a heap of objects with identity, for the aliasing questions.       *)
(***************************************************************************)
EXTENDS Integers, Sequences, FiniteSets, TLC

VARIABLES call, obj, out, heap, last

vars == <<call, obj, out, heap, last>>

(***************************************************************************)
(* Bounds of the model.                                                    *)
(***************************************************************************)
MaxArgs == 3
MaxKw == 2
MaxEqArgs == 1
MaxCmdArgs == 1
MaxDim == 3
MaxBinDim == 2
MaxHeap == 5

(***************************************************************************)
(* Python values.                                                          *)
(***************************************************************************)
PyStr(s) == [t |-> "str", s |-> s]
PyInt(n) == [t |-> "int", n |-> n]
PyNone == [t |-> "None"]
PyBool(b) == [t |-> "bool", b |-> b]
PyList(items) == [t |-> "list", items |-> items]
Raised(exc) == [t |-> "raised", exc |-> exc]
Undef == [t |-> "undef"]

\* All sequences over S of length at most n.
SeqUpTo(S, n) == UNION {[1..k -> S] : k \in 0..n}

\* A **kwargs mapping is a dict: the keys are distinct and the iteration
\* order is the order in which the caller wrote them.
KwargsOver(K, V, n) ==
    {kw \in SeqUpTo([k : K, v : V], n) :
        \A i, j \in 1..Len(kw) : i # j => kw[i].k # kw[j].k}

(***************************************************************************)
(* Parameters, Options, Arguments (command.py, 142-306).                   *)
(***************************************************************************)
isinstance_str(v) == v.t = "str"

\* hasattr(v, '__iter__'): strings and lists iterate; numbers, None and the
\* Parameters classes (which define no __iter__) do not.
hasattr_iter(v) == v.t \in {"str", "list"}

isinstance_Parameters(v) == v.t \in {"Options", "Arguments"}

\* Parameters.__init__(self, *args, **kwargs)
Parameters__init__(cls, args, kwargs) ==
    LET a == IF Len(args) = 1 /\ hasattr_iter(args[1])
                  /\ ~isinstance_str(args[1])
             THEN args[1].items
             ELSE args
    IN  [t |-> cls, _positional_args |-> a, _key_value_args |-> kwargs]

\* str() of an object that is no string or number: LatexObject does not
\* render itself through dumps(), the text is that of the object's repr.
LatexObject_str(v) == "<" \o v.t \o ">"

str(v) ==
    CASE v.t = "str" -> v.s
      [] v.t = "int" -> ToString(v.n)
      [] v.t = "None" -> "None"
      [] OTHER -> LatexObject_str(v)

\* '{k}={v}'.format(k=k, v=v)
format_kv(k, v) == PyStr(k \o "=" \o str(v))

\* Parameters._list_args_kwargs(self)
_list_args_kwargs(self) ==
    self._positional_args \o
    [i \in 1..Len(self._key_value_args) |->
        format_kv(self._key_value_args[i].k, self._key_value_args[i].v)]

RECURSIVE join(_, _)
\* separater.join(strings)
join(separater, strings) ==
    IF Len(strings) = 0 THEN ""
    ELSE IF Len(strings) = 1 THEN strings[1]
    ELSE strings[1] \o separater \o join(separater, Tail(strings))

\* The empty check left out: an empty container renders its delimiters.
_format_contents_unguarded(self, prefix, separater, suffix) ==
    LET params == _list_args_kwargs(self)
    IN  prefix \o join(separater, [i \in 1..Len(params) |-> str(params[i])])
               \o suffix

\* Parameters._format_contents(self, prefix, separater, suffix)
_format_contents(self, prefix, separater, suffix) ==
    LET params == _list_args_kwargs(self)
    IN  IF Len(params) <= 0
        THEN ""
        ELSE prefix \o join(separater, [i \in 1..Len(params) |-> str(params[i])])
                    \o suffix

\* Options.dumps(self)
Options_dumps(self) == _format_contents(self, "[", ",", "]")

\* Arguments.dumps(self)
Arguments_dumps(self) == _format_contents(self, "{", "}{", "}")

\* self.dumps(), dispatched on the class of self
Parameters_dumps(self) ==
    IF self.t = "Options" THEN Options_dumps(self) ELSE Arguments_dumps(self)

RECURSIVE py_eq(_, _)
RECURSIVE tuple_eq(_, _)
\* Parameters.__key(self)
Parameters__key(self) == _list_args_kwargs(self)

\* Parameters.__eq__(self, other)
Parameters__eq__(self, other) ==
    self.t = other.t /\ tuple_eq(Parameters__key(self), Parameters__key(other))

\* Python's a == b on the values of the model: a Parameters object compares
\* by its __eq__, everything else by type and value.
py_eq(a, b) ==
    IF isinstance_Parameters(a) /\ isinstance_Parameters(b)
    THEN Parameters__eq__(a, b)
    ELSE a = b

\* Python's tuple equality: same length, elements pairwise ==.
tuple_eq(x, y) ==
    /\ Len(x) = Len(y)
    /\ \A i \in 1..Len(x) : py_eq(x[i], y[i])

(***************************************************************************)
(* Command (command.py, 15-139).                                           *)
(***************************************************************************)
\* Command._set_parameters(self, parameters, argument_type): the value that
\* setattr stores in the slot.
_set_parameters(parameters, argument_type) ==
    LET parameter_cls == IF argument_type = "options" THEN "Options"
                         ELSE "Arguments"
    IN  IF parameters = PyNone
        THEN Parameters__init__(parameter_cls, <<>>, <<>>)
        ELSE IF parameters.t # parameter_cls
        THEN Parameters__init__(parameter_cls, <<parameters>>, <<>>)
        ELSE parameters

\* Command.__init__(self, command, arguments, options, extra_arguments)
Command__init__(command, arguments, options, extra_arguments) ==
    [t |-> "Command",
     command |-> command,
     arguments |-> _set_parameters(arguments, "arguments"),
     options |-> _set_parameters(options, "options"),
     extra_arguments |->
         IF extra_arguments = PyNone THEN PyNone
         ELSE _set_parameters(extra_arguments, "extra_arguments")]

\* An extra_arguments that renders empty taken for an absent one.
Command_dumps_falsy(self) ==
    LET options == Options_dumps(self.options)
        arguments == Arguments_dumps(self.arguments)
        extra == IF self.extra_arguments = PyNone THEN ""
                 ELSE Arguments_dumps(self.extra_arguments)
    IN  IF extra = ""
        THEN "\\" \o self.command \o options \o arguments
        ELSE "\\" \o self.command \o arguments \o options \o extra

\* Command.dumps(self)
Command_dumps(self) ==
    LET options == Options_dumps(self.options)
        arguments == Arguments_dumps(self.arguments)
    IN  IF self.extra_arguments = PyNone
        THEN "\\" \o self.command \o options \o arguments
        ELSE "\\" \o self.command \o arguments \o options
                  \o Arguments_dumps(self.extra_arguments)

(***************************************************************************)
(* The calls of command.py that Init draws.                                *)
(***************************************************************************)
Scalars == {PyStr("a"), PyStr("b"), PyStr("c"), PyStr("clip"), PyStr("")}
Keys == {"width", "k"}
KwValues == {PyInt(50), PyStr("50")}
Classes == {"Options", "Arguments"}

\* Options(...) / Arguments(...) over scalars.
PlainCalls ==
    [op : {"Parameters"}, cls : Classes, args : SeqUpTo(Scalars, MaxArgs),
     kwargs : KwargsOver(Keys, KwValues, MaxKw)]

CmdScalars == {PyStr("a"), PyStr("o")}
CmdLists == {PyList(items) : items \in SeqUpTo(CmdScalars, MaxCmdArgs)}
CmdContainers ==
    {Parameters__init__(cls, args, kwargs) :
        cls \in Classes, args \in SeqUpTo(CmdScalars, MaxCmdArgs),
        kwargs \in KwargsOver({"k"}, {PyInt(50)}, 1)}

\* Options(x) / Arguments(x) for one argument that is None, a list or a
\* container.
SingleCalls ==
    [op : {"Parameters"}, cls : Classes,
     args : {<<x>> : x \in {PyNone} \cup CmdLists \cup CmdContainers},
     kwargs : KwargsOver({"k"}, {PyInt(50)}, 1)]

ParametersCalls == PlainCalls \cup SingleCalls

EqScalars == {PyStr("a"), PyStr("width=50")}
EqOperands ==
    [cls : Classes, args : SeqUpTo(EqScalars, MaxEqArgs),
     kwargs : KwargsOver(Keys, KwValues, MaxKw)]
\* P == Q for two freshly built containers.
EqCalls == [op : {"eq"}, p : EqOperands, q : EqOperands]

\* What a caller passes in a slot of Command(...).
SlotInputs == {PyNone} \cup CmdScalars \cup CmdLists \cup CmdContainers
CommandCalls ==
    [op : {"Command"}, command : {"c", "com"}, arguments : SlotInputs,
     options : SlotInputs, extra_arguments : SlotInputs]

(***************************************************************************)
(* numpy arrays, as far as math.py uses them: a shape and the cells in     *)
(* row-major (C) order.                                                    *)
(***************************************************************************)
RECURSIVE Flatten(_)
Flatten(rows) ==
    IF rows = <<>> THEN <<>> ELSE Head(rows).items \o Flatten(Tail(rows))

\* numpy.array(matrix) of a list of numbers or of a list of equal-length
\* rows: a new array holding a copy of the cells.
numpy_array(matrix) ==
    IF matrix.items # <<>> /\ matrix.items[1].t = "list"
    THEN [t |-> "ndarray",
          shape |-> <<Len(matrix.items), Len(matrix.items[1].items)>>,
          data |-> Flatten(matrix.items)]
    ELSE [t |-> "ndarray", shape |-> <<Len(matrix.items)>>,
          data |-> matrix.items]

ndim(a) == Len(a.shape)

\* a.reshape(m, n): the same cells in the same row-major order.
reshape(a, m, n) == [a EXCEPT !.shape = <<m, n>>]

\* a.T of a two-dimensional array: cell (i, j) of the result is cell (j, i)
\* of a.
transpose(a) ==
    LET m == a.shape[1]
        n == a.shape[2]
    IN  [t |-> "ndarray", shape |-> <<n, m>>,
         data |-> [k \in 1..(m * n) |->
                      LET i == (k - 1) \div m
                          j == (k - 1) % m
                      IN  a.data[j * n + i + 1]]]

(***************************************************************************)
(* Matrix, Determinant, Vector, ColumnVector (math.py, 152-264).           *)
(***************************************************************************)
\* Matrix.__init__(self, matrix, *, mtype='p', alignment=None)
Matrix__init__(cls, matrix, mtype, alignment) ==
    [t |-> cls,
     matrix |-> IF matrix.t = "list" THEN numpy_array(matrix) ELSE matrix,
     latex_name |-> IF alignment # PyNone THEN mtype.s \o "matrix" \o "*"
                    ELSE mtype.s \o "matrix",
     _mtype |-> mtype]

\* A keyword argument of a call, or the default of the parameter.
kwarg(kwargs, name, default) ==
    IF name \in DOMAIN kwargs THEN kwargs[name] ELSE default

\* Matrix(matrix, **kwargs)
Matrix_call(matrix, kwargs) ==
    Matrix__init__("Matrix", matrix, kwarg(kwargs, "mtype", PyStr("p")),
                   kwarg(kwargs, "alignment", PyNone))

\* Only the number of dimensions checked.
is_square_ndim_only(a) == ndim(a) = 2

\* self.matrix.ndim == 2 and self.matrix.shape[1] == self.matrix.shape[0]
is_square(a) == ndim(a) = 2 /\ a.shape[2] = a.shape[1]

\* Determinant.__init__(self, matrix, *args, **kwargs): mtype='v' is passed
\* on beside **kwargs, so a caller's own mtype is a second value for it.
Determinant__init__(matrix, kwargs) ==
    IF "mtype" \in DOMAIN kwargs THEN Raised("TypeError")
    ELSE LET self == Matrix__init__("Determinant", matrix, PyStr("v"),
                                    kwarg(kwargs, "alignment", PyNone))
         IN  IF is_square(self.matrix) THEN self
             ELSE Raised("AssertionError")

\* Vector.__init__(self, vec, mtype='p', *args, **kwargs)
Vector__init__(cls, vec, kwargs) ==
    LET self == Matrix__init__(cls, vec, kwarg(kwargs, "mtype", PyStr("p")),
                               kwarg(kwargs, "alignment", PyNone))
        a == self.matrix
    IN  IF ndim(a) = 2
        THEN IF a.shape[1] > 1 /\ a.shape[2] > 1
             THEN [self EXCEPT !.matrix = reshape(a, 1, a.shape[1] * a.shape[2])]
             ELSE self
        ELSE [self EXCEPT !.matrix = reshape(a, 1, a.shape[1])]

\* ColumnVector.__init__(self, *args, **kwargs)
ColumnVector__init__(vec, kwargs) ==
    LET self == Vector__init__("ColumnVector", vec, kwargs)
    IN  [self EXCEPT !.matrix = transpose(self.matrix)]

RECURSIVE dumps_content_every_row(_, _, _)
\* The terminator written after the last row too.
dumps_content_every_row(a, k, string) ==
    IF k > Len(a.data) THEN string
    ELSE LET x == (k - 1) % a.shape[2]
             s1 == IF x # 0 THEN string \o "&" ELSE string
             s2 == s1 \o str(a.data[k])
             s3 == IF x = a.shape[2] - 1 THEN s2 \o "\\\\" \o "%\n" ELSE s2
         IN  dumps_content_every_row(a, k + 1, s3)

RECURSIVE dumps_content_from(_, _, _)
\* The loop of Matrix.dumps_content over numpy.ndenumerate(self.matrix),
\* from the k-th cell on, with the string built so far.
dumps_content_from(a, k, string) ==
    IF k > Len(a.data) THEN string
    ELSE LET y == (k - 1) \div a.shape[2]
             x == (k - 1) % a.shape[2]
             s1 == IF x # 0 THEN string \o "&" ELSE string
             s2 == s1 \o str(a.data[k])
             s3 == IF x = a.shape[2] - 1 /\ y # a.shape[1] - 1
                   THEN s2 \o "\\\\" \o "%\n"
                   ELSE s2
         IN  dumps_content_from(a, k + 1, s3)

\* Matrix.dumps_content(self)
Matrix_dumps_content(self) == dumps_content_from(self.matrix, 1, "")

(***************************************************************************)
(* Math, dollar, ddollar (math.py, 99-131 and 268-287).                    *)
(***************************************************************************)
content_separator == " "

\* Math.__init__(self, *, inline=False, data=None, escape=None): the
\* parameters are keyword-only and there are no others.
Math__init__(kwargs) ==
    IF ~(DOMAIN kwargs \subseteq {"inline", "data", "escape"})
    THEN Raised("TypeError")
    ELSE [t |-> "Math",
          inline |-> kwarg(kwargs, "inline", PyBool(FALSE)),
          escape |-> kwarg(kwargs, "escape", PyNone),
          data |-> kwarg(kwargs, "data", PyNone)]

\* Container.dumps_content(self): the items, which are one string or none
\* here, joined by the separator and not escaped.
Container_dumps_content(self) ==
    IF self.data = PyNone THEN "" ELSE join(content_separator, <<str(self.data)>>)

\* The truth value of a Python value in an if.
truthy(v) ==
    CASE v.t = "bool" -> v.b
      [] v.t = "None" -> FALSE
      [] v.t = "str" -> v.s # ""
      [] OTHER -> TRUE

\* The display form written with double dollars.
Math_dumps_ddollars(self) ==
    IF truthy(self.inline)
    THEN "$" \o Container_dumps_content(self) \o "$"
    ELSE "$$" \o Container_dumps_content(self) \o "$$"

\* Math.dumps(self)
Math_dumps(self) ==
    IF truthy(self.inline)
    THEN "$" \o Container_dumps_content(self) \o "$"
    ELSE "\\[%\n" \o Container_dumps_content(self) \o "%\n\\]"

\* dollar(x)
dollar(x) ==
    Math__init__([n \in {"data", "inline", "escape"} |->
                     CASE n = "data" -> x [] n = "inline" -> PyBool(TRUE)
                       [] OTHER -> PyBool(FALSE)])

\* ddollar(x)
ddollar(x) ==
    Math__init__([n \in {"data", "inline", "escape"} |->
                     CASE n = "data" -> x [] n = "inline" -> PyBool(FALSE)
                       [] OTHER -> PyBool(FALSE)])

(***************************************************************************)
(* The calls of math.py that Init draws.                                   *)
(***************************************************************************)
\* The grid of m rows and n columns whose cell (y, x) is f[y, x].
GridOf(m, n, f) ==
    PyList([y \in 1..m |-> PyList([x \in 1..n |-> PyInt(f[y, x])])])

\* Grids of distinct cells, numbered along the rows from 1 or from 10, or
\* down the columns.
NumberedGrids ==
    UNION {{GridOf(m, n, [y \in 1..m, x \in 1..n |-> (y - 1) * n + x]),
            GridOf(m, n, [y \in 1..m, x \in 1..n |-> 9 + (y - 1) * n + x]),
            GridOf(m, n, [y \in 1..m, x \in 1..n |-> (x - 1) * m + y])} :
           m \in 1..MaxDim, n \in 1..MaxDim}

\* Every grid of 1s and 2s of a small shape.
BinaryGrids ==
    UNION {{GridOf(m, n, f) : f \in [(1..m) \X (1..n) -> {1, 2}]} :
           m \in 1..MaxBinDim, n \in 1..MaxBinDim}

Grids == NumberedGrids \cup BinaryGrids

\* One-dimensional inputs.
FlatLists == {PyList([x \in 1..n |-> PyInt(x)]) : n \in 1..MaxDim}

\* All mappings from a subset of the names to a value of each name.
KwargsFrom(values) ==
    UNION {{kw \in [D -> UNION {values[n] : n \in D}] :
               \A n \in D : kw[n] \in values[n]} : D \in SUBSET DOMAIN values}

Booleans == {PyBool(TRUE), PyBool(FALSE)}

MatrixKwargs ==
    KwargsFrom([mtype |-> {PyStr("b"), PyStr("v")}, alignment |-> {PyNone, PyStr("c")}])

MathKwargs ==
    KwargsFrom([inline |-> Booleans, dollar |-> Booleans,
                data |-> {PyStr("c_B"), PyStr("x")}])

MatrixCalls ==
    [op : {"Matrix", "Determinant"}, matrix : Grids, kwargs : MatrixKwargs]
VectorCalls ==
    [op : {"Vector", "ColumnVector"}, matrix : Grids \cup FlatLists,
     kwargs : MatrixKwargs]
MathCalls ==
    [op : {"Math"}, kwargs : MathKwargs]
    \cup [op : {"dollar", "ddollar"}, x : {PyStr("c_B"), PyStr("x")}]

(***************************************************************************)
(* Actions on command.py.                                                  *)
(***************************************************************************)
NewParameters ==
    /\ call.op = "Parameters" /\ obj = Undef
    /\ obj' = Parameters__init__(call.cls, call.args, call.kwargs)
    /\ UNCHANGED <<call, out, heap, last>>

Dumps ==
    /\ call.op = "Parameters" /\ obj # Undef /\ out = Undef
    /\ out' = PyStr(Parameters_dumps(obj))
    /\ UNCHANGED <<call, obj, heap, last>>

NewPair ==
    /\ call.op = "eq" /\ obj = Undef
    /\ obj' = [t |-> "pair",
               p |-> Parameters__init__(call.p.cls, call.p.args, call.p.kwargs),
               q |-> Parameters__init__(call.q.cls, call.q.args, call.q.kwargs)]
    /\ UNCHANGED <<call, out, heap, last>>

Eq ==
    /\ call.op = "eq" /\ obj # Undef /\ out = Undef
    /\ out' = PyBool(Parameters__eq__(obj.p, obj.q))
    /\ UNCHANGED <<call, obj, heap, last>>

NewCommand ==
    /\ call.op = "Command" /\ obj = Undef
    /\ obj' = Command__init__(call.command, call.arguments, call.options,
                              call.extra_arguments)
    /\ UNCHANGED <<call, out, heap, last>>

CommandDumps ==
    /\ call.op = "Command" /\ obj # Undef /\ out = Undef
    /\ out' = PyStr(Command_dumps(obj))
    /\ UNCHANGED <<call, obj, heap, last>>

(***************************************************************************)
(* Actions on math.py.                                                     *)
(***************************************************************************)
NewMatrix ==
    /\ call.op = "Matrix" /\ obj = Undef
    /\ obj' = Matrix_call(call.matrix, call.kwargs)
    /\ UNCHANGED <<call, out, heap, last>>

NewDeterminant ==
    /\ call.op = "Determinant" /\ obj = Undef
    /\ obj' = Determinant__init__(call.matrix, call.kwargs)
    /\ UNCHANGED <<call, out, heap, last>>

NewVector ==
    /\ call.op = "Vector" /\ obj = Undef
    /\ obj' = Vector__init__("Vector", call.matrix, call.kwargs)
    /\ UNCHANGED <<call, out, heap, last>>

NewColumnVector ==
    /\ call.op = "ColumnVector" /\ obj = Undef
    /\ obj' = ColumnVector__init__(call.matrix, call.kwargs)
    /\ UNCHANGED <<call, out, heap, last>>

MatrixDumpsContent ==
    /\ obj.t \in {"Matrix", "Determinant", "Vector", "ColumnVector"}
    /\ out = Undef
    /\ out' = PyStr(Matrix_dumps_content(obj))
    /\ UNCHANGED <<call, obj, heap, last>>

NewMath ==
    /\ call.op = "Math" /\ obj = Undef
    /\ obj' = Math__init__(call.kwargs)
    /\ UNCHANGED <<call, out, heap, last>>

Dollar ==
    /\ call.op \in {"dollar", "ddollar"} /\ obj = Undef
    /\ obj' = IF call.op = "dollar" THEN dollar(call.x) ELSE ddollar(call.x)
    /\ UNCHANGED <<call, out, heap, last>>

MathDumps ==
    /\ obj.t = "Math" /\ out = Undef
    /\ out' = PyStr(Math_dumps(obj))
    /\ UNCHANGED <<call, obj, heap, last>>

Init ==
    /\ call \in ParametersCalls \cup EqCalls \cup CommandCalls
                \cup MatrixCalls \cup VectorCalls \cup MathCalls
    /\ obj = Undef
    /\ out = Undef
    /\ heap = <<>>
    /\ last = Undef

Next ==
    \/ NewParameters
    \/ Dumps
    \/ NewPair
    \/ Eq
    \/ NewCommand
    \/ CommandDumps
    \/ NewMatrix
    \/ NewDeterminant
    \/ NewVector
    \/ NewColumnVector
    \/ MatrixDumpsContent
    \/ NewMath
    \/ Dollar
    \/ MathDumps

Spec == Init /\ [][Next]_vars

(***************************************************************************)
(* Objects with identity.  heap is the sequence of the objects created so  *)
(* far, a reference is an index into it: a caller's lists, grids and       *)
(* arrays, the containers, and the commands and matrices, whose slots hold *)
(* references.  last is the operation just performed.                      *)
(***************************************************************************)
Ref(i) == [t |-> "ref", id |-> i]

\* The object a value denotes: the referenced one, or the value itself.
Deref(h, v) == IF v.t = "ref" THEN h[v.id] ELSE v

\* The container is built anew even when one of the slot's kind is given.
Heap_set_parameters_copying(h, parameters, argument_type) ==
    [heap |-> Append(h, _set_parameters(Deref(h, parameters), argument_type)),
     ref |-> Ref(Len(h) + 1)]

\* Command._set_parameters with identities: a container of the slot's kind
\* is stored as it is, anything else goes into a new container.
Heap_set_parameters(h, parameters, argument_type) ==
    LET parameter_cls == IF argument_type = "options" THEN "Options"
                         ELSE "Arguments"
    IN  IF parameters.t = "ref" /\ h[parameters.id].t = parameter_cls
        THEN [heap |-> h, ref |-> parameters]
        ELSE [heap |-> Append(h, _set_parameters(Deref(h, parameters),
                                                 argument_type)),
              ref |-> Ref(Len(h) + 1)]

\* Command.__init__ with identities: the heap with the new containers and
\* the command, which is its last object.
Heap_Command__init__(h, command, arguments, options, extra_arguments) ==
    LET a == Heap_set_parameters(h, arguments, "arguments")
        o == Heap_set_parameters(a.heap, options, "options")
        e == IF extra_arguments = PyNone
             THEN [heap |-> o.heap, ref |-> PyNone]
             ELSE Heap_set_parameters(o.heap, extra_arguments,
                                      "extra_arguments")
    IN  Append(e.heap, [t |-> "Command", command |-> command,
                        arguments |-> a.ref, options |-> o.ref,
                        extra_arguments |-> e.ref])

\* Matrix.__init__ with identities: numpy.array copies a list into a new
\* array, an array that is given is stored as it is.
Heap_Matrix__init__(h, matrix) ==
    IF h[matrix.id].t = "list"
    THEN Append(Append(h, numpy_array(h[matrix.id])),
                [Matrix_call(Ref(Len(h) + 1), <<>>) EXCEPT
                    !.matrix = Ref(Len(h) + 1)])
    ELSE Append(h, [Matrix_call(matrix, <<>>) EXCEPT !.matrix = matrix])

\* dumps() of the command or container, dumps_content() of the matrix, at
\* index i.
Heap_dumps(h, i) ==
    CASE h[i].t = "Command" ->
            Command_dumps([h[i] EXCEPT
                !.arguments = h[h[i].arguments.id],
                !.options = h[h[i].options.id],
                !.extra_arguments = Deref(h, h[i].extra_arguments)])
      [] h[i].t = "Matrix" ->
            Matrix_dumps_content([h[i] EXCEPT !.matrix = h[h[i].matrix.id]])
      [] OTHER -> Parameters_dumps(h[i])

Instances(h) ==
    {i \in 1..Len(h) : h[i].t \in {"Command", "Matrix", "Options", "Arguments"}}
Matrices(h) == {i \in 1..Len(h) : h[i].t = "Matrix"}
Commands(h) == {i \in 1..Len(h) : h[i].t = "Command"}
Containers(h) == {i \in 1..Len(h) : h[i].t \in {"Options", "Arguments"}}
Lists(h) == {i \in 1..Len(h) : h[i].t = "list"}
Arrays(h) == {i \in 1..Len(h) : h[i].t = "ndarray"}

\* What the caller puts in a slot of kind cls: nothing, one of its lists of
\* scalars, a container of that kind.
SlotChoices(h, cls) ==
    {PyNone}
    \cup {Ref(i) : i \in {j \in Lists(h) :
                             h[j].items = <<>> \/ h[j].items[1].t # "list"}}
    \cup {Ref(i) : i \in {j \in Containers(h) : h[j].t = cls}}

\* The objects of the heap the caller has changed after making them.
Changed(h) ==
    {i \in 1..Len(h) :
        \/ h[i].t = "list" /\ h[i].items # <<>>
               /\ (h[i].items[Len(h[i].items)] = PyStr("x")
                   \/ (h[i].items[1].t = "list"
                       /\ h[i].items[1].items[1] = PyInt(9)))
        \/ h[i].t = "ndarray" /\ h[i].data[1] = PyInt(9)
        \/ h[i].t \in {"Options", "Arguments"} /\ h[i]._positional_args # <<>>
               /\ h[i]._positional_args[Len(h[i]._positional_args)] = PyStr("x")}

TheGrid == GridOf(1, 2, [y \in 1..1, x \in 1..2 |-> x])

\* list of scalars, list of rows, or array
DataKind(o) ==
    IF o.t = "list" /\ o.items # <<>> /\ o.items[1].t = "list" THEN "grid"
    ELSE o.t

KindRank(o) ==
    CASE DataKind(o) = "list" -> 1 [] DataKind(o) = "grid" -> 2 [] OTHER -> 3

\* The caller makes its data before it builds from it: a list of scalars, a
\* grid as a list of rows, an array, one of each at most and in this order.
CallerNew ==
    \E o \in {PyList(<<PyStr("a")>>), TheGrid, numpy_array(TheGrid)} :
        /\ Len(heap) < MaxHeap
        /\ Instances(heap) = {}
        /\ \A i \in 1..Len(heap) : KindRank(heap[i]) < KindRank(o)
        /\ heap' = Append(heap, o)
        /\ last' = [op |-> "new", id |-> Len(heap) + 1]
        /\ UNCHANGED <<call, obj, out>>

\* Options(x) / Arguments(x) of one of the caller's lists.
HeapNewParameters ==
    \E cls \in Classes :
      \E x \in {v \in SlotChoices(heap, cls) : v # PyNone /\ Deref(heap, v).t = "list"} :
        /\ Len(heap) < MaxHeap
        /\ Instances(heap) \subseteq Containers(heap)
        /\ heap' = Append(heap, Parameters__init__(cls, <<Deref(heap, x)>>, <<>>))
        /\ last' = [op |-> "Parameters", id |-> Len(heap) + 1, given |-> <<x>>]
        /\ UNCHANGED <<call, obj, out>>

HeapNewCommand ==
    \E command \in {"c"} :
      \E a \in SlotChoices(heap, "Arguments"), o \in SlotChoices(heap, "Options"),
         e \in {PyNone} \cup {Ref(i) : i \in {j \in Containers(heap) : heap[j].t = "Arguments"}} :
        LET h == Heap_Command__init__(heap, command, a, o, e)
        IN  /\ Len(h) <= MaxHeap
            /\ Matrices(heap) = {}
            /\ heap' = h
            /\ last' = [op |-> "Command", id |-> Len(h), given |-> <<a, o, e>>]
            /\ UNCHANGED <<call, obj, out>>

HeapNewMatrix ==
    \E m \in {Ref(i) : i \in Arrays(heap) \cup
                  {j \in Lists(heap) : heap[j].items # <<>> /\ heap[j].items[1].t = "list"}} :
        LET h == Heap_Matrix__init__(heap, m)
        IN  /\ Len(h) <= MaxHeap
            /\ Instances(heap) \subseteq Matrices(heap)
            /\ heap' = h
            /\ last' = [op |-> "Matrix", id |-> Len(h), given |-> <<m>>]
            /\ UNCHANGED <<call, obj, out>>

\* The caller appends to one of its lists of scalars.
ListAppend ==
    \E i \in Lists(heap) :
        /\ heap[i].items # <<>> /\ heap[i].items[1].t # "list"
        /\ Changed(heap) = {}
        /\ heap' = [heap EXCEPT ![i].items = Append(@, PyStr("x"))]
        /\ last' = [op |-> "list_append", id |-> i]
        /\ UNCHANGED <<call, obj, out>>

\* The caller overwrites the first cell of its grid or of an array.
CellSet ==
    \E i \in Lists(heap) \cup Arrays(heap) :
        /\ Changed(heap) = {}
        /\ \/ /\ heap[i].t = "list" /\ heap[i].items # <<>>
              /\ heap[i].items[1].t = "list"
              /\ heap' = [heap EXCEPT ![i].items[1].items[1] = PyInt(9)]
           \/ /\ heap[i].t = "ndarray"
              /\ heap' = [heap EXCEPT ![i].data[1] = PyInt(9)]
        /\ last' = [op |-> "cell_set", id |-> i]
        /\ UNCHANGED <<call, obj, out>>

\* The positional values of a container are appended to, through the
\* caller's own reference or through the slot of a command that holds it.
ContainerAppend ==
    \E i \in Containers(heap) :
        /\ Changed(heap) = {}
        /\ heap' = [heap EXCEPT ![i]._positional_args = Append(@, PyStr("x"))]
        /\ last' = [op |-> "container_append", id |-> i]
        /\ UNCHANGED <<call, obj, out>>

HeapDumps ==
    \E i \in Instances(heap) :
        /\ last' = [op |-> "dumps", id |-> i, s |-> Heap_dumps(heap, i)]
        /\ UNCHANGED <<call, obj, out, heap>>

InitOwnership ==
    /\ call = Undef /\ obj = Undef /\ out = Undef
    /\ heap = <<>>
    /\ last = [op |-> "start"]

NextOwnership ==
    \/ CallerNew
    \/ HeapNewParameters
    \/ HeapNewCommand
    \/ HeapNewMatrix
    \/ ListAppend
    \/ CellSet
    \/ ContainerAppend
    \/ HeapDumps

SpecOwnership == InitOwnership /\ [][NextOwnership]_vars

(***************************************************************************)
(* Claims on command.py.                                                   *)
(***************************************************************************)
\* The texts of a container's values: the positional ones in order, then
\* each keyed one as key=value.
ValueTexts(o) ==
    [i \in 1..(Len(o._positional_args) + Len(o._key_value_args)) |->
        IF i <= Len(o._positional_args)
        THEN str(o._positional_args[i])
        ELSE LET e == o._key_value_args[i - Len(o._positional_args)]
             IN  e.k \o "=" \o str(e.v)]

RECURSIVE EachBraced(_)
\* {v1}{v2}...
EachBraced(texts) ==
    IF texts = <<>> THEN ""
    ELSE "{" \o Head(texts) \o "}" \o EachBraced(Tail(texts))

RECURSIVE CommaBefore(_)
\* ,v1,v2...
CommaBefore(texts) ==
    IF texts = <<>> THEN ""
    ELSE "," \o Head(texts) \o CommaBefore(Tail(texts))

\* The block the documentation promises for a container of class cls
\* holding the given value texts.
Block(cls, texts) ==
    IF texts = <<>> THEN ""
    ELSE IF cls = "Options"
    THEN "[" \o Head(texts) \o CommaBefore(Tail(texts)) \o "]"
    ELSE EachBraced(texts)

Rendered == call.op = "Parameters" /\ out # Undef

\* C2: a container with no positional and no keyed values renders as the
\* empty string (never "[]" or "{}"); any other renders as prefix, the
\* positional values in construction order followed by the keyed values as
\* key=value, joined by the separator, suffix: Options with "[" "," "]",
\* Arguments with "{" "}{" "}".
C2_Render ==
    Rendered =>
        /\ out.s = Block(obj.t, ValueTexts(obj))
        /\ (obj._positional_args = <<>> /\ obj._key_value_args = <<>>)
               <=> out.s = ""
        /\ call \in PlainCalls =>
               /\ obj._positional_args = call.args
               /\ obj._key_value_args = call.kwargs
        /\ (Len(call.args) = 1 /\ call.args[1].t = "list") =>
               obj._positional_args = call.args[1].items
        /\ (call.cls = "Options" /\ call.kwargs = <<>>
               /\ call.args = <<PyStr("a"), PyStr("b"), PyStr("c")>>)
               => out.s = "[a,b,c]"
        /\ (call.cls = "Arguments" /\ call.kwargs = <<>>
               /\ call.args = <<PyStr("a"), PyStr("b"), PyStr("c")>>)
               => out.s = "{a}{b}{c}"
        /\ (call.cls = "Options" /\ call.args = <<PyStr("clip")>>
               /\ call.kwargs = <<[k |-> "width", v |-> PyInt(50)]>>)
               => out.s = "[clip,width=50]"

C2_Witness ==
    /\ Rendered
    /\ call.cls = "Options" /\ call.args = <<PyStr("clip")>>
    /\ call.kwargs = <<[k |-> "width", v |-> PyInt(50)]>>
    /\ out.s = "[clip,width=50]"

\* The keyed values of a container as a mapping.
KeyedMapping(o) ==
    {<<o._key_value_args[i].k, o._key_value_args[i].v>> :
        i \in 1..Len(o._key_value_args)}

\* C3: two containers of the same kind are equal if and only if their
\* positional sequences are equal element-wise and their keyed mappings
\* are equal as mappings.
C3_EqualIffSameData ==
    (call.op = "eq" /\ out # Undef /\ obj.p.t = obj.q.t) =>
        (out.b <=> (/\ obj.p._positional_args = obj.q._positional_args
                    /\ KeyedMapping(obj.p) = KeyedMapping(obj.q)))

\* The block a slot of a command shows for what the caller passed: nothing
\* for None, the value for a scalar, the items for a list, the container's
\* own block for a container of the slot's kind.
SlotBlock(cls, given) ==
    CASE given = PyNone -> ""
      [] given.t \in {"str", "int"} -> Block(cls, <<str(given)>>)
      [] given.t = "list" ->
            Block(cls, [i \in 1..Len(given.items) |-> str(given.items[i])])
      [] OTHER -> Block(cls, ValueTexts(given))

\* A container passed in a slot of the other kind.
WrongKind(given, cls) == isinstance_Parameters(given) /\ given.t # cls

WrongKindCall ==
    \/ WrongKind(call.arguments, "Arguments")
    \/ WrongKind(call.options, "Options")
    \/ WrongKind(call.extra_arguments, "Arguments")

CommandRendered == call.op = "Command" /\ out # Undef

\* C1: a command renders in exactly one of two layouts, chosen only by
\* whether extra_arguments was supplied: without it, \name, the options
\* block, the arguments block; with it, even when it renders empty, \name,
\* the arguments block, the options block, the extra arguments block.
C1_Layout ==
    CommandRendered =>
        /\ call.extra_arguments = PyNone =>
               out.s = "\\" \o call.command \o Options_dumps(obj.options)
                            \o Arguments_dumps(obj.arguments)
        /\ call.extra_arguments # PyNone =>
               out.s = "\\" \o call.command \o Arguments_dumps(obj.arguments)
                            \o Options_dumps(obj.options)
                            \o Arguments_dumps(obj.extra_arguments)
        /\ (~WrongKindCall /\ call.extra_arguments = PyNone) =>
               out.s = "\\" \o call.command
                            \o SlotBlock("Options", call.options)
                            \o SlotBlock("Arguments", call.arguments)
        /\ (~WrongKindCall /\ call.extra_arguments # PyNone) =>
               out.s = "\\" \o call.command
                            \o SlotBlock("Arguments", call.arguments)
                            \o SlotBlock("Options", call.options)
                            \o SlotBlock("Arguments", call.extra_arguments)
        /\ (call.command = "c" /\ call.arguments = PyStr("a")
               /\ call.options = PyStr("o")) =>
               /\ call.extra_arguments = PyNone => out.s = "\\c[o]{a}"
               /\ call.extra_arguments = PyStr("a") => out.s = "\\c{a}[o]{a}"
               /\ call.extra_arguments = PyList(<<>>) => out.s = "\\c{a}[o]"

\* An extra_arguments that was supplied and renders empty still selects
\* the second layout.
C1_Witness ==
    /\ CommandRendered
    /\ call.command = "c" /\ call.arguments = PyStr("a")
    /\ call.options = PyStr("o") /\ call.extra_arguments = PyList(<<>>)
    /\ out.s = "\\c{a}[o]"

\* C5: constructing a Command with a container of the wrong kind in a slot
\* fails with a type-mismatch error, and no Command is produced.
C5_WrongKindRejected ==
    (call.op = "Command" /\ obj # Undef /\ WrongKindCall) =>
        obj = Raised("TypeError")

\* C7: a container constructed from one positional argument that is a
\* container of the same kind has that container's positional sequence and
\* keyed mapping, is equal to it and renders to the same string.
C7_CopyOfSameKind ==
    (Rendered /\ Len(call.args) = 1 /\ call.args[1].t = call.cls
        /\ call.kwargs = <<>>) =>
        /\ obj._positional_args = call.args[1]._positional_args
        /\ KeyedMapping(obj) = KeyedMapping(call.args[1])
        /\ Parameters__eq__(obj, call.args[1])
        /\ out.s = Parameters_dumps(call.args[1])

(***************************************************************************)
(* Claims on math.py.                                                      *)
(***************************************************************************)
RECURSIVE AmpBefore(_)
\* &c1&c2...
AmpBefore(cells) ==
    IF cells = <<>> THEN ""
    ELSE "&" \o str(Head(cells)) \o AmpBefore(Tail(cells))

\* The cells of one row, joined by &.
RowText(row) == str(Head(row.items)) \o AmpBefore(Tail(row.items))

RECURSIVE RowsText(_)
\* The rows, each but the last followed by the row terminator.
RowsText(rows) ==
    IF Len(rows) = 1 THEN RowText(rows[1])
    ELSE RowText(Head(rows)) \o "\\\\%\n" \o RowsText(Tail(rows))

\* C8: the content of a matrix built from an M x N grid is its rows in
\* order, the cells of a row joined by & with none leading or trailing, and
\* the terminator \\ % newline after every row except the last.
C8_MatrixContent ==
    (call.op \in {"Matrix", "Determinant"} /\ out # Undef) =>
        /\ out.s = RowsText(call.matrix.items)
        /\ call.matrix = GridOf(2, 2, [y \in 1..2, x \in 1..2 |-> 2 * (y - 1) + x])
               => out.s = "1&2\\\\%\n3&4"

C8_Witness ==
    /\ call.op = "Matrix" /\ out # Undef
    /\ call.matrix = GridOf(2, 2, [y \in 1..2, x \in 1..2 |-> 2 * (y - 1) + x])
    /\ out.s = "1&2\\\\%\n3&4"

Rows(grid) == Len(grid.items)
Cols(grid) == Len(grid.items[1].items)

\* C9: a Determinant of a grid with rows # columns is not constructed, the
\* construction fails on the shape; of a square grid it is constructed with
\* bracket style v, named vmatrix, or vmatrix* when an alignment is given.
\* The style cannot be chosen by the caller.
C9_Determinant ==
    (call.op = "Determinant" /\ obj # Undef) =>
        IF "mtype" \in DOMAIN call.kwargs
        THEN obj = Raised("TypeError")
        ELSE IF Rows(call.matrix) # Cols(call.matrix)
        THEN obj = Raised("AssertionError")
        ELSE /\ obj.t = "Determinant"
             /\ obj._mtype = PyStr("v")
             /\ obj.matrix.shape = <<Rows(call.matrix), Cols(call.matrix)>>
             /\ obj.latex_name =
                    IF kwarg(call.kwargs, "alignment", PyNone) # PyNone
                    THEN "vmatrix*" ELSE "vmatrix"

\* A 2 x 3 grid was refused.
C9_Witness ==
    /\ call.op = "Determinant" /\ obj = Raised("AssertionError")
    /\ Rows(call.matrix) = 2 /\ Cols(call.matrix) = 3

\* C4: Vector of any M x N grid holds the 1 x (M*N) row of the cells in
\* row-major order, and ColumnVector of it holds the (M*N) x 1 column that
\* is the transpose of that row.
C4_FlattenLaw ==
    (call.op \in {"Vector", "ColumnVector"} /\ obj # Undef
        /\ call.matrix \in Grids) =>
        LET size == Rows(call.matrix) * Cols(call.matrix)
            row == [t |-> "ndarray", shape |-> <<1, size>>,
                    data |-> Flatten(call.matrix.items)]
        IN  /\ call.op = "Vector" => obj.matrix = row
            /\ call.op = "ColumnVector" =>
                   /\ obj.matrix.shape = <<size, 1>>
                   /\ obj.matrix = transpose(row)

\* The content a Math object was given.
GivenContent == str(kwarg(call.kwargs, "data", PyStr("")))

\* C6 as stated: two flags select three renderings, $...$ for inline=True,
\* $$...$$ for inline=False with dollar=True, \[...\] for inline=False with
\* dollar=False.
C6_ThreeRenderings ==
    (call.op = "Math" /\ obj # Undef) =>
        /\ obj.t = "Math"
        /\ out # Undef =>
               out.s = IF kwarg(call.kwargs, "inline", PyBool(FALSE)).b
                       THEN "$" \o GivenContent \o "$"
                       ELSE IF kwarg(call.kwargs, "dollar", PyBool(FALSE)).b
                       THEN "$$" \o GivenContent \o "$$"
                       ELSE "\\[%\n" \o GivenContent \o "%\n\\]"

\* C6 as amended: one flag selects two renderings, $...$ for inline=True and
\* \[% newline ... % newline \] for inline=False; there is no dollar flag
\* (passing one fails the construction) and no $$...$$ rendering; dollar(x)
\* is the inline form and ddollar(x) the bracket form.
C6_TwoRenderings ==
    /\ (call.op = "Math" /\ obj # Undef) =>
           /\ "dollar" \in DOMAIN call.kwargs <=> obj = Raised("TypeError")
           /\ "dollar" \notin DOMAIN call.kwargs => obj.t = "Math"
    /\ (call.op = "Math" /\ out # Undef) =>
           /\ out.s = IF kwarg(call.kwargs, "inline", PyBool(FALSE)).b
                      THEN "$" \o GivenContent \o "$"
                      ELSE "\\[%\n" \o GivenContent \o "%\n\\]"
           /\ out.s # "$$" \o GivenContent \o "$$"
    /\ (call.op = "dollar" /\ out # Undef) => out.s = "$" \o call.x.s \o "$"
    /\ (call.op = "ddollar" /\ out # Undef) =>
           out.s = "\\[%\n" \o call.x.s \o "%\n\\]"

C6_Witness ==
    /\ call.op = "Math" /\ out # Undef
    /\ call.kwargs = [n \in {"inline", "data"} |->
                         IF n = "inline" THEN PyBool(FALSE) ELSE PyStr("c_B")]
    /\ out.s = "\\[%\nc_B%\n\\]"

(***************************************************************************)
(* Claims on ownership.                                                    *)
(***************************************************************************)
\* The containers a command holds.
SlotRefs(h, c) ==
    {h[c].arguments, h[c].options, h[c].extra_arguments} \ {PyNone}

\* C10 as stated: no two distinct instances share parameter data, two
\* commands built from the same container each hold their own.
C10_NoSharedData ==
    \A c1, c2 \in Commands(heap) :
        c1 # c2 => SlotRefs(heap, c1) \cap SlotRefs(heap, c2) = {}

\* What a slot of a new command holds, given what the caller passed: the
\* very container when it is one of the slot's kind, else a new container
\* with a copy of the list's items (none for None).
SlotAsBuilt(h, h2, slot, given, cls) ==
    IF given.t = "ref" /\ h[given.id].t = cls
    THEN slot = given
    ELSE /\ slot.t = "ref" /\ slot.id > Len(h)
         /\ h2[slot.id].t = cls
         /\ h2[slot.id]._positional_args =
                IF given = PyNone THEN <<>> ELSE h[given.id].items

\* The instances whose rendering a step changes.
Rerendered ==
    {i \in Instances(heap) : Heap_dumps(heap', i) # Heap_dumps(heap, i)}

\* The instances that hold object k as it is: k itself, the commands with
\* k in a slot, the matrices over the array k.
Holders(h, k) ==
    {i \in Instances(h) :
        \/ i = k
        \/ h[i].t = "Command" /\ Ref(k) \in SlotRefs(h, i)
        \/ h[i].t = "Matrix" /\ h[i].matrix = Ref(k)}

C10_Step ==
    /\ last'.op = "dumps" => heap' = heap
    /\ last'.op \in {"Parameters", "Command", "Matrix"} =>
           /\ SubSeq(heap', 1, Len(heap)) = heap
           /\ Rerendered = {}
    /\ last'.op = "Parameters" =>
           heap'[last'.id]._positional_args = heap[last'.given[1].id].items
    /\ last'.op = "Command" =>
           LET c == heap'[last'.id]
               given == last'.given
           IN  /\ SlotAsBuilt(heap, heap', c.arguments, given[1], "Arguments")
               /\ SlotAsBuilt(heap, heap', c.options, given[2], "Options")
               /\ IF given[3] = PyNone THEN c.extra_arguments = PyNone
                  ELSE SlotAsBuilt(heap, heap', c.extra_arguments, given[3],
                                   "Arguments")
    /\ last'.op = "Matrix" =>
           LET m == heap'[last'.id].matrix
               given == last'.given[1]
           IN  IF heap[given.id].t = "list"
               THEN m.id > Len(heap) /\ heap'[m.id] = numpy_array(heap[given.id])
               ELSE m = given
    /\ (last'.op \in {"list_append", "cell_set"} /\ heap[last'.id].t = "list")
           => Rerendered = {}
    /\ (last'.op = "container_append"
           \/ (last'.op = "cell_set" /\ heap[last'.id].t = "ndarray"))
           => Rerendered = Holders(heap, last'.id)

\* C10 as amended: data taken from a caller's list is copied, so a later
\* change of the list changes no rendering; a container of the slot's kind
\* given to a Command, and an array given to a Matrix, is stored as it is,
\* so a later change of it changes the rendering of exactly the instances
\* that were given it; constructing an instance changes no existing object
\* or rendering, and dumps changes nothing.
C10_Ownership == [][C10_Step]_vars

\* Two commands given the same options container, one rendered after the
\* container was appended to.
C10_Witness ==
    /\ last.op = "dumps" /\ heap[last.id].t = "Command"
    /\ \E c2 \in Commands(heap) \ {last.id} :
           /\ heap[c2].options = heap[last.id].options
           /\ heap[last.id].options.id \in Changed(heap)
    /\ last.s = "\\c[a,x]{a}"

====
